---- MODULE Spec2Model ----
(***************************************************************************)
(* Model of RtmpJs.MP4.MP4Mux (src/src/mp4mux.ts): the FLV-packet to       *)
(* fragmented-MP4 muxer.  One MP4Mux instance is modelled; its fields are  *)
(* the variables below, the output sink `ondata` is the log `out`.         *)
(* Byte buffers are sequences of numbers 0..255; every box is modelled by  *)
(* its byte length, computed the way tag()/flatten() compute it.           *)
(***************************************************************************)
EXTENDS Integers, Sequences, FiniteSets, TLC

\* ------------------------------------------------------------------ bounds
\* Number of packets one instance accepts (caches) during a behaviour.
MaxSamples == 6

\* ------------------------------------------------------- program constants
MP3_SOUND_CODEC_ID == 2
AAC_SOUND_CODEC_ID == 10
VP6_VIDEO_CODEC_ID == 4
AVC_VIDEO_CODEC_ID == 7
AUDIO_PACKET == 8
VIDEO_PACKET == 9
MAX_PACKETS_IN_CHUNK == 5

\* JavaScript `undefined` (a missing byte or an absent optional field).
Undefined == -1

\* ToInt32 of a byte operand: undefined behaves as 0 under >>, & and |.
ToInt32(x) == IF x = Undefined THEN 0 ELSE x

\* data[i] for a Uint8Array, i counted from 0 as in the source.
ByteAt(data, i) == IF i >= 0 /\ i < Len(data) THEN data[i + 1] ELSE Undefined

\* data.subarray(i)
Subarray(data, i) == IF i >= Len(data) THEN <<>> ELSE SubSeq(data, i + 1, Len(data))

SOUNDRATES == <<5500, 11025, 22050, 44100>>

\* Length of the buffer tag(name, data) returns for a 4-character name.
TagLen(dataLen) == 8 + dataLen

RECURSIVE SumSeq(_)
SumSeq(s) == IF s = <<>> THEN 0 ELSE Head(s) + SumSeq(Tail(s))

\* ------------------------------------------------------- the box encoder
\* The values flatten() accepts: a Uint8Array, a number, a string (given by
\* its character codes) and an array of such values.
Bytes(b) == [ k |-> "bytes", v |-> b ]
Number(n) == [ k |-> "number", v |-> n ]
String(codes) == [ k |-> "string", v |-> codes ]
Array(items) == [ k |-> "array", v |-> items ]

RECURSIVE flatten(_)
RECURSIVE flattenEach(_)
flatten(arr) ==
  IF arr.k = "bytes" THEN arr.v
  ELSE IF arr.k = "number" THEN << arr.v % 256 >>
  ELSE IF arr.k = "string" THEN [ i \in 1..Len(arr.v) |-> arr.v[i] % 256 ]
  ELSE flattenEach(arr.v)

\* arr.map(flatten) copied one after the other into the result.
flattenEach(items) ==
  IF items = <<>> THEN <<>> ELSE flatten(Head(items)) \o flattenEach(Tail(items))

\* Mutant: the bytes are written least significant first.
encodeInt32_LittleEndian(n) ==
  << n % 256, (n \div 256) % 256, (n \div 65536) % 256, (n \div 16777216) % 256 >>

\* The four bytes of the 32-bit number n, most significant first (\div
\* rounds down, as >> does on a two's complement number).
encodeInt32(n) ==
  << (n \div 16777216) % 256, (n \div 65536) % 256, (n \div 256) % 256, n % 256 >>

\* tag(name, data), name given by its character codes: the buffer, or threw
\* when the name has not 4 characters or the box is longer than 0x7FFFFFFF.
tagOfFlat(name, data) ==
  IF Len(name) # 4 \/ 8 + Len(data) > 2147483647
  THEN [ threw |-> TRUE, buffer |-> <<>> ]
  ELSE [ threw |-> FALSE,
         buffer |-> flatten(Array(<< Bytes(encodeInt32(8 + Len(data))), String(name),
                                     Bytes(data) >>)) ]

tag(name, data) ==
  IF Len(name) # 4 THEN [ threw |-> TRUE, buffer |-> <<>> ]
  ELSE tagOfFlat(name, flatten(data))

\* ------------------------------------------------------------ the parsers
\* Mutant: the rate index is read one bit too low.
SoundRate_Shifted(b0) == SOUNDRATES[((b0 \div 2) % 4) + 1]

\* SOUNDRATES[(data[i] >> 2) & 3]
SoundRate(b0) == SOUNDRATES[((b0 \div 4) % 4) + 1]

parseAudiodata(data) ==
  LET b0      == ToInt32(ByteAt(data, 0))
      codecId == b0 \div 16
      b2      == ToInt32(ByteAt(data, 2))
      version == (b2 \div 8) % 4
      layer   == (b2 \div 2) % 4
  IN [ frameType       |-> Undefined,
       codecId         |-> codecId,
       rate            |-> SoundRate(b0),
       size            |-> IF (b0 \div 2) % 2 = 1 THEN 16 ELSE 8,
       channels        |-> IF b0 % 2 = 1 THEN 2 ELSE 1,
       packetType      |-> IF codecId = AAC_SOUND_CODEC_ID THEN ByteAt(data, 1) ELSE Undefined,
       compositionTime |-> Undefined,
       samples         |-> IF codecId = AAC_SOUND_CODEC_ID THEN 1024
                           ELSE IF codecId = MP3_SOUND_CODEC_ID
                                THEN (IF layer = 1 THEN (IF version = 3 THEN 1152 ELSE 576)
                                      ELSE (IF layer = 3 THEN 384 ELSE 1152))
                                ELSE Undefined,
       data            |-> Subarray(data, IF codecId = AAC_SOUND_CODEC_ID THEN 2 ELSE 1) ]

parseVideodata(data) ==
  LET b0      == ToInt32(ByteAt(data, 0))
      codecId == b0 % 16
      u24     == ToInt32(ByteAt(data, 2)) * 65536 + ToInt32(ByteAt(data, 3)) * 256
                   + ToInt32(ByteAt(data, 4))
  IN [ frameType       |-> b0 \div 16,
       codecId         |-> codecId,
       rate            |-> Undefined,
       size            |-> Undefined,
       channels        |-> Undefined,
       packetType      |-> IF codecId = AVC_VIDEO_CODEC_ID THEN ByteAt(data, 1) ELSE Undefined,
       compositionTime |-> IF codecId = AVC_VIDEO_CODEC_ID
                           THEN (IF u24 >= 8388608 THEN u24 - 16777216 ELSE u24)
                           ELSE Undefined,
       samples         |-> Undefined,
       data            |-> Subarray(data, IF codecId = AVC_VIDEO_CODEC_ID THEN 5
                                          ELSE IF codecId = VP6_VIDEO_CODEC_ID THEN 2 ELSE 1) ]

\* --------------------------------------------------------- configurations
\* A track as the constructor builds it (language, channels, width and
\* height only reach fixed-width header fields and are left out).
Track(type, timescale, samplerate, framerate) ==
  [ type |-> type, timescale |-> timescale, samplerate |-> samplerate,
    framerate |-> framerate, cache |-> <<>>, cachedDuration |-> 0 ]

\* metadata.trackinfo given: one track per descriptor, header deferred.
TrackinfoAV ==
  [ tracks |-> << Track("mp4a", 44100, 44100, Undefined), Track("avc1", 1000, Undefined, 25) >>,
    audioTrackId |-> 0, videoTrackId |-> 1, waitForAdditionalData |-> TRUE ]

TrackinfoVideo ==
  [ tracks |-> << Track("avc1", 1000, Undefined, 25) >>,
    audioTrackId |-> -1, videoTrackId |-> 0, waitForAdditionalData |-> TRUE ]

\* legacy fields: audiocodecid 2 and videocodecid 4.
LegacyAV ==
  [ tracks |-> << Track("mp3", 44100, 44100, Undefined), Track("vp6f", 10000, Undefined, 25) >>,
    audioTrackId |-> 0, videoTrackId |-> 1, waitForAdditionalData |-> FALSE ]

\* legacy fields: videocodecid 4 only.
LegacyVideo ==
  [ tracks |-> << Track("vp6f", 10000, Undefined, 25) >>,
    audioTrackId |-> -1, videoTrackId |-> 0, waitForAdditionalData |-> FALSE ]

Configurations == { TrackinfoAV, TrackinfoVideo, LegacyAV, LegacyVideo }

\* ------------------------------------------------------------ the inputs
\* Raw packet bodies (FLV tag bodies) the caller hands to pushPacket.
Mp3Frame    == << 47, 255, 251, 144 >>            \* 0x2F: MP3 44100 16 bit stereo, MPEG1 layer III
AacConfig   == << 175, 0, 18, 16 >>               \* 0xAF 0x00: AudioSpecificConfig
AacRaw      == << 175, 1, 33, 34, 35 >>           \* 0xAF 0x01: raw AAC frame
AdpcmFrame  == << 31, 1, 2 >>                     \* 0x1F: ADPCM, not supported
Vp6Key      == << 20, 0, 90, 91, 92 >>            \* 0x14: key frame, VP6
Vp6Inter    == << 36, 0, 93 >>                    \* 0x24: inter frame, VP6
AvcConfig   == << 23, 0, 0, 0, 0, 1, 66, 0, 30, 255, 1 >>  \* 0x17 0x00: AVCDecoderConfigurationRecord
AvcKey      == << 23, 1, 0, 0, 40, 101, 102 >>    \* 0x17 0x01: key frame NALU
AvcInter    == << 39, 1, 255, 255, 216, 65 >>     \* 0x27 0x01: inter frame NALU, composition time -40
SorensonKey == << 18, 7, 8 >>                     \* 0x12: Sorenson H.263, not supported

SCRIPT_PACKET == 18
PacketTypes == { AUDIO_PACKET, VIDEO_PACKET, SCRIPT_PACKET }


\* The bodies a stream of the configured kind carries for a packet type:
\* MP3/VP6 for the legacy fields, AAC/AVC for trackinfo, and in both an
\* unsupported codec.
Bodies(wait, type) ==
  IF type = AUDIO_PACKET
  THEN (IF wait THEN { AacConfig, AacRaw, AdpcmFrame } ELSE { Mp3Frame, AdpcmFrame })
  ELSE IF type = VIDEO_PACKET
  THEN (IF wait THEN { AvcConfig, AvcKey, AvcInter, SorensonKey }
        ELSE { Vp6Key, Vp6Inter, SorensonKey })
  ELSE { << 2, 0 >> }

\* ------------------------------------------------------------- the state
VARIABLES
  tracks,                \* this.tracks (track i of the source is tracks[i + 1])
  audioTrackId,          \* this.audioTrackId, -1 when there is no audio track
  videoTrackId,          \* this.videoTrackId, -1 when there is no video track
  waitForAdditionalData, \* this.waitForAdditionalData
  filePos,               \* this.filePos
  cachedPackets,         \* this.cachedPackets
  state,                 \* this.state: 0 Uninitialized, 1 HeaderEmitted
  chunkIndex,            \* this.chunkIndex
  out,                   \* the buffers handed to this.ondata, in order
  accepted,              \* how many packets have been cached so far
  last,                  \* the latest call: operation, arguments, outcome
  calls,                 \* the calls that changed the instance, in order
  keyFlushes,            \* key frames pushed while packets were pending
  pure                   \* a call of a function of the module: argument and, once done, result

muxVars == << tracks, filePos, cachedPackets, state, chunkIndex, out, accepted >>
cfgVars == << audioTrackId, videoTrackId, waitForAdditionalData >>
vars == << tracks, audioTrackId, videoTrackId, waitForAdditionalData, filePos,
           cachedPackets, state, chunkIndex, out, accepted, last, calls, keyFlushes,
           pure >>

\* The instance as one value, threaded through the methods below.  threw
\* is set when a method throws; the fields keep what was written before.
Mux ==
  [ tracks |-> tracks, filePos |-> filePos, cachedPackets |-> cachedPackets,
    state |-> state, chunkIndex |-> chunkIndex, out |-> out, accepted |-> accepted,
    threw |-> FALSE ]

Throw(m) == [m EXCEPT !.threw = TRUE]

\* ------------------------------------------------------- generateHeader()
\* Byte length of the sample entry (codecInfo) of one track.
CodecInfoLen(t) ==
  IF t.type = "mp4a"
  THEN TagLen(16 + 2 + 4 + 4 + 2
              + TagLen(8 + 1 + 7 + 1 + 17 + 1 + Len(t.cache[1].packet.data) + 6))
  ELSE IF t.type = "mp3" THEN TagLen(16 + 2 + 4 + 4 + 2)
  ELSE IF t.type = "avc1"
  THEN TagLen(24 + 2 + 2 + 50 + TagLen(Len(t.cache[1].packet.data)))
  ELSE TagLen(24 + 2 + 2 + 50 + TagLen(1))

\* Byte length of the trak box of one track.
TrakLen(t) ==
  LET isAudio == t.type \in { "mp4a", "mp3" }
      stbl    == TagLen(TagLen(8 + CodecInfoLen(t)) + 68)
      minf    == TagLen((IF isAudio THEN 52 ELSE 56) + stbl)
      mdia    == TagLen(22 + 2 + 4 + 2 + 47 + minf)
  IN TagLen(20 + 4 + 18 + 2 + 2 + 38 + 4 + 4 + mdia)

\* The loop over this.tracks (i counts from 1).  It throws on a track type
\* it does not know and on an 'mp4a' or 'avc1' track whose cache is empty
\* (cache[0] is undefined there); the caches of the tracks before that one
\* are already cleared.  acc collects the trak lengths, the samples cleared
\* from the caches and, of these, the ones whose data the header embeds.
RECURSIVE headerTracks(_, _, _)
headerTracks(ts, i, acc) ==
  IF i > Len(ts) THEN [ tracks |-> ts, threw |-> FALSE, len |-> acc.len,
                        samples |-> acc.samples, embedded |-> acc.embedded ]
  ELSE LET t == ts[i]
       IN IF t.type \notin { "mp4a", "mp3", "avc1", "vp6f" }
          THEN [ tracks |-> ts, threw |-> TRUE, len |-> acc.len,
                 samples |-> acc.samples, embedded |-> acc.embedded ]
          ELSE IF t.type \in { "mp4a", "avc1" } /\ Len(t.cache) = 0
          THEN [ tracks |-> ts, threw |-> TRUE, len |-> acc.len,
                 samples |-> acc.samples, embedded |-> acc.embedded ]
          ELSE headerTracks([ts EXCEPT ![i].cache = <<>>], i + 1,
                            [ len |-> acc.len + TrakLen(t),
                              samples |-> acc.samples \o t.cache,
                              embedded |-> IF t.type \in { "mp4a", "avc1" }
                                           THEN Append(acc.embedded, t.cache[1])
                                           ELSE acc.embedded ])

\* this.state after the header is handed to the sink.
HeaderEmittedState == 1

\* Mutant: `this.filePos = length` instead of `+=`.
AdvanceFilePos_Assign(pos, len) == len

\* this.filePos after a buffer of len bytes is handed to the sink.
AdvanceFilePos(pos, len) == pos + len

\* Lines 418-426, once the loop returned r.
emitHeader(m, r) ==
  IF r.threw THEN Throw([m EXCEPT !.tracks = r.tracks])
  ELSE [m EXCEPT !.tracks = r.tracks,
                 !.cachedPackets = 0,
                 !.out = Append(@, [ kind |-> "header",
                                     len |-> 32 + TagLen(104 + 4 + r.len + 170),
                                     seq |-> 0, filePos |-> m.filePos,
                                     trafs |-> <<>>, samples |-> r.samples,
                                     embedded |-> r.embedded ]),
                 !.filePos = AdvanceFilePos(@, 32 + TagLen(104 + 4 + r.len + 170)),
                 !.state = HeaderEmittedState]

generateHeader(m) ==
  emitHeader(m, headerTracks(m.tracks, 1, [ len |-> 0, samples |-> <<>>, embedded |-> <<>> ]))

\* ---------------------------------------------------------------- _chunk()
\* Mutant: the increment of this.chunkIndex is lost.
NextChunkIndex_Stuck(n) == n

\* ++this.chunkIndex: the sequence number written into the moof header.
NextChunkIndex(n) == n + 1

\* audioFrameDuration and videoFrameDuration, truncated by `| 0`.
AudioFrameDuration(t, packet) == (packet.samples * t.timescale) \div t.samplerate
VideoFrameDuration(t) == t.timescale \div t.framerate

RECURSIVE AudioDurations(_, _)
AudioDurations(t, cache) ==
  IF cache = <<>> THEN 0
  ELSE AudioFrameDuration(t, Head(cache).packet) + AudioDurations(t, Tail(cache))

RECURSIVE DataLength(_)
DataLength(cache) ==
  IF cache = <<>> THEN 0 ELSE Len(Head(cache).packet.data) + DataLength(Tail(cache))

\* Mutant: the tfdt of the commented-out line, currentTrackTime, taken from
\* the timestamp of the first cached sample.
Tfdt_FromTimestamp(t) == (t.cache[1].timestamp * t.timescale) \div 1000

\* The base media decode time written into the tfdt box of a track.
Tfdt(t) == t.cachedDuration

\* Mutant: the 16 bytes of the tfdt box are not counted.
TrafLength_NoTfdt(tfhd, trunHead, trunTail) == 8 + tfhd + 8 + trunHead + 4 + trunTail

\* What one track adds to moofLength: the traf and trun box headers, the
\* tfhd, the tfdt (16 bytes) and the trun with its 4-byte data offset.
TrafLength(tfhd, trunHead, trunTail) == 8 + tfhd + 8 + trunHead + 16 + 4 + trunTail

\* Mutant: a track with a single cached sample is skipped as well.
SkipTrack_Single(n) == n <= 1

\* `trackInfo.cache.length === 0`: the track is left out of the fragment.
SkipTrack(n) == n = 0

\* The first loop over this.tracks: one entry of trafParts / tdatParts /
\* tfdts per track with a nonempty cache, moofLength grown by the size of
\* its traf, cachedDuration advanced and the cache cleared.
RECURSIVE chunkTracks(_, _, _)
chunkTracks(ts, i, acc) ==
  IF i > Len(ts) THEN [ tracks |-> ts, threw |-> FALSE, moofLength |-> acc.moofLength,
                        parts |-> acc.parts ]
  ELSE LET t == ts[i]
           n == Len(t.cache)
           isAudio == t.type \in { "mp4a", "mp3" }
           totalDuration == IF isAudio THEN AudioDurations(t, t.cache)
                            ELSE n * VideoFrameDuration(t)
           trunHead == 4 + 4
           trunTail == 4 + n * (4 + 4)
           tfhd == IF isAudio THEN TagLen(4 + 4 + 12) ELSE TagLen(4 + 4 + 4 + 8)
           part == [ trackId |-> i, tfdt |-> Tfdt(t), tfhd |-> tfhd,
                     trunHead |-> trunHead, trunTail |-> trunTail,
                     sync |-> IF isAudio THEN Undefined
                              ELSE (IF t.cache[1].packet.frameType # 1 THEN 0 ELSE 1),
                     duration |-> totalDuration,
                     tdat |-> DataLength(t.cache), samples |-> t.cache ]
       IN IF SkipTrack(n) THEN chunkTracks(ts, i + 1, acc)
          ELSE IF t.type \notin { "mp4a", "mp3", "avc1", "vp6f" }
          THEN [ tracks |-> ts, threw |-> TRUE, moofLength |-> acc.moofLength,
                 parts |-> acc.parts ]
          ELSE chunkTracks([ts EXCEPT ![i].cachedDuration = @ + totalDuration,
                                      ![i].cache = <<>>],
                           i + 1,
                           [ moofLength |-> acc.moofLength
                                              + TrafLength(tfhd, trunHead, trunTail),
                             parts |-> Append(acc.parts, part) ])

\* The second loop: each traf gets the data offset tdatOffset, which starts
\* at moofLength and grows by the payload of the trafs before it.
RECURSIVE trafBoxes(_, _)
trafBoxes(parts, tdatOffset) ==
  IF parts = <<>> THEN <<>>
  ELSE LET p == Head(parts)
           traf == TagLen(p.tfhd + TagLen(4 + 4) + TagLen(p.trunHead + 4 + p.trunTail))
       IN << [ trackId |-> p.trackId, tfdt |-> p.tfdt, dataOffset |-> tdatOffset,
               sync |-> p.sync, duration |-> p.duration, len |-> traf, tdat |-> p.tdat,
               samples |-> p.samples ] >>
          \o trafBoxes(Tail(parts), tdatOffset + p.tdat)

RECURSIVE AllSamples(_)
AllSamples(trafs) ==
  IF trafs = <<>> THEN <<>> ELSE Head(trafs).samples \o AllSamples(Tail(trafs))

\* Byte length of the chunk: tag('moof', moofParts) and tag('mdat', tdatParts).
ChunkLen(trafs) ==
  TagLen(12 + 4 + SumSeq([ k \in 1..Len(trafs) |-> trafs[k].len ]))
    + TagLen(SumSeq([ k \in 1..Len(trafs) |-> trafs[k].tdat ]))

\* Lines 501-504, with the trafs of the second loop.
emitChunk(m, index, ts, trafs) ==
  [m EXCEPT !.chunkIndex = index,
            !.tracks = ts,
            !.out = Append(@, [ kind |-> "chunk", len |-> ChunkLen(trafs), seq |-> index,
                                filePos |-> m.filePos,
                                trafs |-> trafs, samples |-> AllSamples(trafs),
                                embedded |-> AllSamples(trafs) ]),
            !.filePos = AdvanceFilePos(@, ChunkLen(trafs)),
            !.cachedPackets = 0]

\* Lines 493-504, once the first loop returned r.
buildChunk(m, index, r) ==
  IF r.threw THEN Throw([m EXCEPT !.chunkIndex = index, !.tracks = r.tracks])
  ELSE emitChunk(m, index, r.tracks, trafBoxes(r.parts, r.moofLength))

chunk(m) ==
  buildChunk(m, NextChunkIndex(m.chunkIndex),
             chunkTracks(m.tracks, 1, [ moofLength |-> 8 + (12 + 4) + 8, parts |-> <<>> ]))

\* ------------------------------------------------------------ pushPacket()
\* Mutant: the test of this.state is missing.
EmitHeaderFirst_Always(st, wait) == ~wait

\* Mutant: the waitForAdditionalData test is inverted.
EmitHeaderFirst_Inverted(st, wait) == st = 0 /\ wait

\* `this.state === 0 && !this.waitForAdditionalData`
EmitHeaderFirst(st, wait) == st = 0 /\ ~wait

\* Mutant: the header is generated on the configuration packet itself.
EmitHeaderNow_OnConfig(packet, st) == packet.packetType = 0 /\ st = 0

\* `packetType !== 0 && this.state === 0` of the AAC and AVC cases.
EmitHeaderNow(packet, st) == packet.packetType # 0 /\ st = 0

\* Mutant: a key frame never flushes the pending packets.
KeyFrameFlush_Never(packet, cached) == FALSE

\* Mutant: the flush is keyed on frame type 2 (inter frame).
KeyFrameFlush_WrongType(packet, cached) == packet.frameType = 2 /\ cached # 0

\* `frameType === 1 && this.cachedPackets !== 0` of the VP6 and AVC cases.
KeyFrameFlush(packet, cached) == packet.frameType = 1 /\ cached # 0

\* Mutant: the default case of the audio codec switch does not throw.
AudioCodecSupported_Any(codecId) == TRUE

\* The codec ids whose case does not throw.
AudioCodecSupported(codecId) == codecId \in { MP3_SOUND_CODEC_ID, AAC_SOUND_CODEC_ID }
VideoCodecSupported(codecId) == codecId \in { VP6_VIDEO_CODEC_ID, AVC_VIDEO_CODEC_ID }

\* Mutant: `>` instead of `>=`.
ChunkFull_OffByOne(cached) == cached > MAX_PACKETS_IN_CHUNK

\* `this.cachedPackets >= MAX_PACKETS_IN_CHUNK`
ChunkFull(cached) == cached >= MAX_PACKETS_IN_CHUNK

\* Mutant: the increment of this.cachedPackets is lost.
CountCached_Lost(n) == n

\* this.cachedPackets++ after a cache push.
CountCached(n) == n + 1

\* this.tracks[trackId].cache.push({packet, timestamp}); this.cachedPackets++.
\* With trackId -1 this.tracks[trackId] is undefined and the push throws.
cachePacket(m, trackId, packet, timestamp) ==
  IF trackId < 0 \/ trackId >= Len(m.tracks) THEN Throw(m)
  ELSE [m EXCEPT !.tracks[trackId + 1].cache =
                     Append(@, [ packet |-> packet, timestamp |-> timestamp,
                                 id |-> m.accepted + 1 ]),
                 !.cachedPackets = CountCached(@),
                 !.accepted = @ + 1]

\* The cache push of either case, unless the call has thrown before it.
cacheUnlessThrown(m, trackId, packet, timestamp) ==
  IF m.threw THEN m ELSE cachePacket(m, trackId, packet, timestamp)

\* The codec switch of case AUDIO_PACKET and the push after it.
cacheAudio(m, aId, audioPacket, timestamp) ==
  IF ~AudioCodecSupported(audioPacket.codecId) THEN Throw(m)
  ELSE cacheUnlessThrown(IF audioPacket.codecId = AAC_SOUND_CODEC_ID
                            /\ EmitHeaderNow(audioPacket, m.state)
                         THEN generateHeader(m) ELSE m,
                         aId, audioPacket, timestamp)

\* case AUDIO_PACKET
pushAudio(m, aId, data, timestamp) == cacheAudio(m, aId, parseAudiodata(data), timestamp)

\* The key frame check of the VP6 and AVC cases and the push after it.
cacheAfterKeyFrameCheck(m, vId, videoPacket, timestamp) ==
  IF m.threw THEN m
  ELSE cacheUnlessThrown(IF KeyFrameFlush(videoPacket, m.cachedPackets) THEN chunk(m) ELSE m,
                         vId, videoPacket, timestamp)

\* The codec switch of case VIDEO_PACKET and the push after it.
cacheVideo(m, vId, videoPacket, timestamp) ==
  IF ~VideoCodecSupported(videoPacket.codecId) THEN Throw(m)
  ELSE cacheAfterKeyFrameCheck(IF videoPacket.codecId = AVC_VIDEO_CODEC_ID
                                  /\ EmitHeaderNow(videoPacket, m.state)
                               THEN generateHeader(m) ELSE m,
                               vId, videoPacket, timestamp)

\* case VIDEO_PACKET
pushVideo(m, vId, data, timestamp) == cacheVideo(m, vId, parseVideodata(data), timestamp)

\* Lines 327-329, unless the switch has thrown.
chunkIfFull(m) ==
  IF m.threw THEN m
  ELSE IF ChunkFull(m.cachedPackets) THEN chunk(m)
  ELSE m

\* The switch on type (lines 284-325) and the ceiling check after it.
dispatch(m, aId, vId, type, data, timestamp) ==
  IF m.threw THEN m
  ELSE chunkIfFull(IF type = AUDIO_PACKET THEN pushAudio(m, aId, data, timestamp)
                   ELSE IF type = VIDEO_PACKET THEN pushVideo(m, vId, data, timestamp)
                   ELSE Throw(m))

pushPacket(m, wait, aId, vId, type, data, timestamp) ==
  dispatch(IF EmitHeaderFirst(m.state, wait) THEN generateHeader(m) ELSE m,
           aId, vId, type, data, timestamp)

\* ----------------------------------------------------------------- flush()
\* Mutant: `>=` instead of `>`.
FlushNeeded_Always(cached) == cached >= 0

\* `this.cachedPackets > 0`
FlushNeeded(cached) == cached > 0

flush(m) == IF FlushNeeded(m.cachedPackets) THEN chunk(m) ELSE m

\* ------------------------------------------------------------ constructor
Init ==
  /\ \E c \in Configurations :
       /\ tracks = c.tracks
       /\ audioTrackId = c.audioTrackId
       /\ videoTrackId = c.videoTrackId
       /\ waitForAdditionalData = c.waitForAdditionalData
  /\ filePos = 0
  /\ cachedPackets = 0
  /\ state = 0
  /\ chunkIndex = 0
  /\ out = <<>>
  /\ accepted = 0
  /\ last = [ op |-> "new", type |-> 0, data |-> <<>>, threw |-> FALSE ]
  /\ calls = <<>>
  /\ keyFlushes = {}
  /\ pure = [ fn |-> "none", done |-> FALSE ]

\* The pending samples of all tracks, in track order.
RECURSIVE AllPending(_)
AllPending(ts) == IF ts = <<>> THEN <<>> ELSE Head(ts).cache \o AllPending(Tail(ts))

\* The instance after a call returned or threw m.
Becomes(m, call) ==
  /\ tracks' = m.tracks
  /\ filePos' = m.filePos
  /\ cachedPackets' = m.cachedPackets
  /\ state' = m.state
  /\ chunkIndex' = m.chunkIndex
  /\ out' = m.out
  /\ accepted' = m.accepted
  /\ last' = call
  /\ calls' = IF muxVars' # muxVars THEN Append(calls, call) ELSE calls
  /\ UNCHANGED << cfgVars, pure >>

\* The clock the caller stamps packets with.
Timestamp == 40 * accepted

\* The key frames pushed while packets were pending, after a push became m.
KeyFlushesAfter(m, type, videoPacket) ==
  IF type = VIDEO_PACKET /\ ~m.threw /\ videoPacket.frameType = 1
     /\ VideoCodecSupported(videoPacket.codecId) /\ cachedPackets # 0
  THEN keyFlushes \cup
         { [ id |-> m.accepted, st |-> state, pending |-> AllPending(tracks),
             n |-> m.chunkIndex, after |-> AllPending(m.tracks),
             count |-> m.cachedPackets ] }
  ELSE keyFlushes

Pushed(m, type, data) ==
  /\ Becomes(m, [ op |-> "pushPacket", type |-> type, data |-> data, threw |-> m.threw ])
  /\ keyFlushes' = KeyFlushesAfter(m, type, parseVideodata(data))

\* A call that throws is fatal to the instance: the caller discards it, so
\* no call follows one that threw (~last.threw).
PushPacket ==
  /\ ~last.threw
  /\ accepted < MaxSamples
  /\ \E type \in PacketTypes : \E data \in Bodies(waitForAdditionalData, type) :
       Pushed(pushPacket(Mux, waitForAdditionalData, audioTrackId, videoTrackId,
                         type, data, Timestamp),
              type, data)

Flushed(m) ==
  /\ Becomes(m, [ op |-> "flush", type |-> 0, data |-> <<>>, threw |-> m.threw ])
  /\ UNCHANGED keyFlushes

Flush ==
  /\ ~last.threw
  /\ Flushed(flush(Mux))

Next == PushPacket \/ Flush

Spec == Init /\ [][Next]_vars

\* --------------------------------------------- the functions on their own
\* Audio packet bodies: every first byte, a packet type or MPEG sync byte,
\* and every MPEG version and layer in the byte after it.
AudioInputs ==
  { << b0, b1, 224 + 8 * version + 2 * layer >> :
      b0 \in 0..255, b1 \in { 0, 1, 255 }, version \in 0..3, layer \in 0..3 }

\* Box names of 4 characters ('moof', 'mdat', '.mp3') and of other lengths.
TagNames ==
  { << 109, 111, 111, 102 >>, << 109, 100, 97, 116 >>, << 46, 109, 112, 51 >>,
    << 109, 112, 52 >>, << 116, 114, 97, 107, 49 >>, <<>> }

PayloadAtoms ==
  { Bytes(<<>>), Bytes(<< 0 >>), Bytes(<< 1, 255 >>), Number(7), Number(0),
    String(<< 97, 98 >>) }

\* Payloads: a value, an array of two values, an array holding an array.
Payloads ==
  PayloadAtoms
    \cup { Array(<< a, b >>) : a \in PayloadAtoms, b \in PayloadAtoms }
    \cup { Array(<< a, Array(<< b, a >>) >>) : a \in PayloadAtoms, b \in PayloadAtoms }

InitPure ==
  /\ tracks = LegacyAV.tracks
  /\ audioTrackId = LegacyAV.audioTrackId
  /\ videoTrackId = LegacyAV.videoTrackId
  /\ waitForAdditionalData = LegacyAV.waitForAdditionalData
  /\ filePos = 0
  /\ cachedPackets = 0
  /\ state = 0
  /\ chunkIndex = 0
  /\ out = <<>>
  /\ accepted = 0
  /\ last = [ op |-> "new", type |-> 0, data |-> <<>>, threw |-> FALSE ]
  /\ calls = <<>>
  /\ keyFlushes = {}
  /\ pure \in { [ fn |-> "parseAudiodata", done |-> FALSE, arg |-> data ] :
                  data \in AudioInputs }
             \cup { [ fn |-> "tag", done |-> FALSE, name |-> name, arg |-> data ] :
                      name \in TagNames, data \in Payloads }

ParseAudio ==
  /\ pure.fn = "parseAudiodata" /\ ~pure.done
  /\ pure' = [ fn |-> "parseAudiodata", done |-> TRUE, arg |-> pure.arg,
                result |-> parseAudiodata(pure.arg) ]
  /\ UNCHANGED << muxVars, cfgVars, last, calls, keyFlushes >>

Tag ==
  /\ pure.fn = "tag" /\ ~pure.done
  /\ pure' = [ fn |-> "tag", done |-> TRUE, name |-> pure.name, arg |-> pure.arg,
                result |-> tag(pure.name, pure.arg) ]
  /\ UNCHANGED << muxVars, cfgVars, last, calls, keyFlushes >>

NextPure == ParseAudio \/ Tag

SpecPure == InitPure /\ [][NextPure]_vars


\* ================================================================ properties
\* The fragments and the headers among the buffers handed to the sink.
Chunks == SelectSeq(out, LAMBDA b : b.kind = "chunk")
Headers == SelectSeq(out, LAMBDA b : b.kind = "header")

\* The packet of the latest call, as pushPacket parsed it.
LastPacket(call) ==
  IF call.type = AUDIO_PACKET THEN parseAudiodata(call.data) ELSE parseVideodata(call.data)

\* C1: every fragment handed to the sink is preceded by the header, i.e.
\* _chunk never emits while the muxer is still Uninitialized.
C1_HeaderBeforeFragments ==
  \A i \in 1..Len(out) :
    out[i].kind = "chunk" => \E j \in 1..(i - 1) : out[j].kind = "header"

\* C2: the k-th fragment handed to the sink carries sequence number k, and
\* chunkIndex counts the fragments emitted so far and nothing else.
C2_SequenceNumbers ==
  /\ \A k \in 1..Len(Chunks) : Chunks[k].seq = k
  /\ chunkIndex = Len(Chunks)

C2_Witness == Len(Chunks) >= 3 /\ Chunks[3].seq = 3

\* C3: on a fresh muxer whose header is emitted, pushing video inter frames
\* only emits no fragment during pushes 1..4 and exactly one fragment,
\* numbered 1 and holding all 5 samples, at the end of the 5th push, which
\* leaves 0 packets pending.
InterFramesOnly ==
  \A i \in 1..Len(calls) :
    /\ calls[i].op = "pushPacket" /\ calls[i].type = VIDEO_PACKET /\ ~calls[i].threw
    /\ parseVideodata(calls[i].data).frameType # 1

C3_CeilingFlush ==
  (InterFramesOnly /\ state = 1 /\ Len(calls) \in 1..MAX_PACKETS_IN_CHUNK) =>
    IF Len(calls) < MAX_PACKETS_IN_CHUNK
    THEN Chunks = <<>> /\ cachedPackets = Len(calls)
    ELSE /\ Len(Chunks) = 1
         /\ Chunks[1].seq = 1
         /\ [ k \in 1..Len(Chunks[1].samples) |-> Chunks[1].samples[k].id ] = << 1, 2, 3, 4, 5 >>
         /\ out[Len(out)].kind = "chunk"
         /\ cachedPackets = 0
         /\ AllPending(tracks) = <<>>

C3_Witness ==
  InterFramesOnly /\ state = 1 /\ Len(calls) = MAX_PACKETS_IN_CHUNK /\ Len(Chunks) = 1

\* C4 as claimed: a video key frame (VP6 or AVC) pushed while packets are
\* pending flushes all of them into fragment N, is then the only pending
\* sample, and is emitted in fragment N+1.
FlushedBefore(r) ==
  \E i \in 1..Len(out) :
    out[i].kind = "chunk" /\ out[i].seq = r.n /\ out[i].samples = r.pending
    /\ r.pending # <<>>

SolePending(r) == r.count = 1 /\ Len(r.after) = 1 /\ r.after[1].id = r.id

InNextFragment(r) ==
  \/ /\ chunkIndex = r.n
     /\ \E k \in 1..Len(AllPending(tracks)) : AllPending(tracks)[k].id = r.id
  \/ \E i \in 1..Len(out) :
       /\ out[i].kind = "chunk" /\ out[i].seq = r.n + 1
       /\ \E k \in 1..Len(out[i].samples) : out[i].samples[k].id = r.id

C4_KeyFrameFlush_Claimed ==
  \A r \in keyFlushes : FlushedBefore(r) /\ SolePending(r) /\ InNextFragment(r)

\* C4 amended: the same, for a key frame pushed after the header has been
\* emitted (state HeaderEmitted at the call).
C4_KeyFrameFlush ==
  \A r \in keyFlushes :
    r.st = 1 => FlushedBefore(r) /\ SolePending(r) /\ InNextFragment(r)

C4_Witness ==
  \E r \in keyFlushes :
    /\ r.st = 1 /\ Len(r.pending) >= 2
    /\ \E i \in 1..Len(out) :
         /\ out[i].kind = "chunk" /\ out[i].seq = r.n + 1
         /\ \E k \in 1..Len(out[i].samples) : out[i].samples[k].id = r.id

\* C5: flush() with no packet pending changes nothing: no buffer reaches
\* the sink, and chunkIndex, filePos, state, the caches and the cached
\* durations stay as they are.
C5_FlushNoOp ==
  [][ (last'.op = "flush" /\ cachedPackets = 0) => UNCHANGED muxVars ]_vars

C5_Witness ==
  /\ last.op = "flush" /\ cachedPackets = 0
  /\ Len(calls) >= 1 /\ calls[Len(calls)].op = "pushPacket"
  /\ Len(Chunks) >= 1

\* C6: the header is handed to the sink at most once, and once the state is
\* HeaderEmitted it never returns to Uninitialized.
C6_HeaderOnce ==
  /\ [](Len(Headers) <= 1 /\ (Len(Headers) = 1 => state = 1))
  /\ [][ state = 1 => state' = 1 ]_vars

C6_Witness == Len(Headers) = 1 /\ state = 1 /\ Len(out) >= 3 /\ accepted >= 3

\* C7 as claimed: under the deferred path, after a configuration sample
\* (AAC or AVC packet with packetType 0) has been pushed the header has
\* been emitted.
IsConfigPush(call) ==
  /\ call.op = "pushPacket" /\ ~call.threw
  /\ call.type \in { AUDIO_PACKET, VIDEO_PACKET }
  /\ LastPacket(call).codecId = (IF call.type = AUDIO_PACKET THEN AAC_SOUND_CODEC_ID
                                 ELSE AVC_VIDEO_CODEC_ID)
  /\ LastPacket(call).packetType = 0

IsRawPush(call) ==
  /\ call.op = "pushPacket"
  /\ call.type \in { AUDIO_PACKET, VIDEO_PACKET }
  /\ LastPacket(call).codecId = (IF call.type = AUDIO_PACKET THEN AAC_SOUND_CODEC_ID
                                 ELSE AVC_VIDEO_CODEC_ID)
  /\ LastPacket(call).packetType # 0

C7_ConfigTriggersHeader_Claimed ==
  (waitForAdditionalData /\ IsConfigPush(last)) => state = 1

\* C7 amended: under the deferred path, while Uninitialized, a push of an
\* AAC or AVC packet whose packetType is not 0 runs header generation, so
\* the header has been emitted whenever that push returns; no other push
\* emits it: a packetType 0 sample is cached and the muxer stays
\* Uninitialized.
C7_RawTriggersHeader ==
  [][ (waitForAdditionalData /\ state = 0 /\ last'.op = "pushPacket") =>
        IF IsRawPush(last')
        THEN /\ ~last'.threw =>
                  /\ state' = 1
                  /\ Headers' # <<>> /\ out'[Len(out) + 1].kind = "header"
                  /\ accepted' = accepted + 1
             /\ state' = 1 <=> Len(Headers') = Len(Headers) + 1
        ELSE state' = 0 /\ Headers' = Headers ]_vars

C7_Witness ==
  /\ waitForAdditionalData /\ IsRawPush(last) /\ ~last.threw
  /\ out # <<>> /\ out[Len(out)].kind = "header" /\ out[Len(out)].samples # <<>>
  /\ cachedPackets = 1

\* C8: in the legacy path the first pushPacket emits the header before the
\* packet is dispatched: the header is the first output, it is emitted even
\* when that packet is rejected, and nothing is cached while Uninitialized.
C8_LegacyHeaderFirst ==
  ~waitForAdditionalData =>
    /\ last.op = "pushPacket" => state = 1
    /\ state = 1 => out # <<>> /\ out[1].kind = "header" /\ out[1].samples = <<>>
    /\ state = 0 => out = <<>> /\ AllPending(tracks) = <<>> /\ cachedPackets = 0

C8_Witness ==
  /\ ~waitForAdditionalData /\ last.op = "pushPacket" /\ last.threw
  /\ Len(out) = 1 /\ out[1].kind = "header" /\ accepted = 0

\* C9: filePos is the number of bytes handed to the sink so far (header and
\* fragments), and it never decreases.
C9_FilePos ==
  /\ [](filePos = SumSeq([ i \in 1..Len(out) |-> out[i].len ]))
  /\ [][ filePos' >= filePos ]_vars

C9_Witness == Len(Headers) = 1 /\ Len(Chunks) >= 2 /\ filePos > 0

\* C10: a push of a packet type other than 8 and 9, of an audio codec other
\* than 2 and 10, or of a video codec other than 4 and 7 throws and caches
\* nothing: caches, cached durations, cachedPackets and chunkIndex are as
\* before and no fragment is emitted.
IsRejected(call) ==
  /\ call.op = "pushPacket"
  /\ \/ call.type \notin { AUDIO_PACKET, VIDEO_PACKET }
     \/ call.type = AUDIO_PACKET
          /\ parseAudiodata(call.data).codecId \notin { MP3_SOUND_CODEC_ID, AAC_SOUND_CODEC_ID }
     \/ call.type = VIDEO_PACKET
          /\ parseVideodata(call.data).codecId \notin { VP6_VIDEO_CODEC_ID, AVC_VIDEO_CODEC_ID }

C10_RejectedPacket ==
  [][ IsRejected(last') =>
        /\ last'.threw
        /\ tracks' = tracks
        /\ Chunks' = Chunks
        /\ cachedPackets' = cachedPackets
        /\ chunkIndex' = chunkIndex
        /\ accepted' = accepted ]_vars

C10_Witness ==
  /\ IsRejected(last) /\ last.threw /\ last.type = AUDIO_PACKET
  /\ cachedPackets >= 2 /\ Len(Chunks) >= 1

\* ------------------------------------------------------------------- C11
\* Byte 0 of an audio body read as the fields the format gives it: the codec
\* in the high 4 bits, then 2 bits of rate index, a bit-depth flag and a
\* channel flag.
HeaderLayout(b0, r) ==
  \E codec \in 0..15, idx \in 0..3, depth \in 0..1, stereo \in 0..1 :
    /\ b0 = 16 * codec + 4 * idx + 2 * depth + stereo
    /\ r.codecId = codec
    /\ r.rate = << 5500, 11025, 22050, 44100 >>[idx + 1]
    /\ r.size = (IF depth = 1 THEN 16 ELSE 8)
    /\ r.channels = (IF stereo = 1 THEN 2 ELSE 1)

\* The samples of an MP3 frame from the MPEG version and layer fields of the
\* frame header byte b2: layer field 1 is Layer III, 2 is Layer II, 3 is
\* Layer I; version field 3 is MPEG version 1.
Mp3SampleTable(b2, r) ==
  \E sync \in 0..7, version \in 0..3, layer \in 0..3, prot \in 0..1 :
    /\ b2 = 32 * sync + 8 * version + 2 * layer + prot
    /\ layer = 1 => r.samples = (IF version = 3 THEN 1152 ELSE 576)
    /\ layer = 2 => r.samples = 1152
    /\ layer = 3 => r.samples = 384

AudioDecode ==
  (pure.fn = "parseAudiodata" /\ pure.done) =>
    /\ HeaderLayout(pure.arg[1], pure.result)
    /\ pure.result.codecId = MP3_SOUND_CODEC_ID => Mp3SampleTable(pure.arg[3], pure.result)

\* C11 as stated: parseAudiodata decodes byte 0 into codec (high 4 bits),
\* rate (2-bit index into 5500, 11025, 22050, 44100), bit depth (16 if the
\* flag is set, else 8) and channels (2 if the flag is set, else 1), an MP3
\* frame has 1152 or 576 samples in Layer III, 1152 in Layer II and 384 in
\* Layer I, and the byte 0b00101010 yields codec 2, 44100 Hz, 8 bit, 1 channel.
C11_AudioDecode_Claimed ==
  /\ AudioDecode
  /\ (pure.fn = "parseAudiodata" /\ pure.done /\ pure.arg[1] = 42) =>
       /\ pure.result.codecId = 2
       /\ pure.result.rate = 44100
       /\ pure.result.size = 8
       /\ pure.result.channels = 1

\* C11, amended: the same decoding, and the byte 0b00101010 yields codec 2,
\* 22050 Hz (rate index 2), 16 bit (flag set) and 1 channel.
C11_AudioDecode ==
  /\ AudioDecode
  /\ (pure.fn = "parseAudiodata" /\ pure.done /\ pure.arg[1] = 42) =>
       /\ pure.result.codecId = 2
       /\ pure.result.rate = 22050
       /\ pure.result.size = 16
       /\ pure.result.channels = 1

\* The byte 0b00101010 heading an MPEG version 2 Layer III frame was parsed.
C11_Witness ==
  /\ pure.fn = "parseAudiodata" /\ pure.done
  /\ pure.arg[1] = 42
  /\ pure.result.samples = 576

\* ------------------------------------------------------------------- C12
TagDone == pure.fn = "tag" /\ pure.done

\* The number whose big-endian bytes are b[1..4].
BigEndian(b) == b[1] * 16777216 + b[2] * 65536 + b[3] * 256 + b[4]

\* C12: tag(T, P) with a 4-character T is a buffer of 8 + len(P) bytes, P
\* flattened: its first 4 bytes are 8 + len(P) big-endian, the next 4 are
\* the characters of T and the rest is the flattened P; with a T of another
\* length the call fails and produces no buffer.
C12_TagLayout ==
  TagDone =>
    IF Len(pure.name) = 4
    THEN /\ ~pure.result.threw
         /\ Len(pure.result.buffer) = 8 + Len(flatten(pure.arg))
         /\ Len(pure.result.buffer) = TagLen(Len(flatten(pure.arg)))
         /\ \A i \in 1..Len(pure.result.buffer) : pure.result.buffer[i] \in 0..255
         /\ BigEndian(pure.result.buffer) = 8 + Len(flatten(pure.arg))
         /\ SubSeq(pure.result.buffer, 5, 8) = pure.name
         /\ SubSeq(pure.result.buffer, 9, Len(pure.result.buffer)) = flatten(pure.arg)
    ELSE pure.result.threw /\ pure.result.buffer = <<>>

\* A box was built around a nested array that flattens to 3 bytes or more.
C12_Witness ==
  /\ TagDone
  /\ pure.arg.k = "array"
  /\ Len(pure.name) = 4
  /\ Len(pure.result.buffer) >= 11

\* ------------------------------------------------------------------- C13
\* The samples whose data the emissions so far carry: the configuration
\* samples embedded in the header and the samples in the mdat of a fragment.
RECURSIVE EmittedSamples(_)
EmittedSamples(o) ==
  IF o = <<>> THEN <<>> ELSE Head(o).embedded \o EmittedSamples(Tail(o))

Occurrences(samples, id) == Cardinality({ k \in 1..Len(samples) : samples[k].id = id })

InArrivalOrder(samples) ==
  \A j, k \in 1..Len(samples) : j < k => samples[j].id < samples[k].id

\* C13: every accepted sample is, at any time, either pending in a cache or
\* part of exactly one emission - the header for a consumed configuration
\* sample, else the mdat of one fragment, in arrival order within its track;
\* no accepted sample is discarded without emission or emitted twice.
C13_EverySampleOnce ==
  ~last.threw =>
    /\ \A id \in 1..accepted :
         Occurrences(EmittedSamples(out) \o AllPending(tracks), id) = 1
    /\ \A k \in 1..Len(out) : \A j \in 1..Len(out[k].trafs) :
         InArrivalOrder(out[k].trafs[j].samples)

\* ------------------------------------------------------------------- C14
\* The step is a push that runs header generation under the deferred path:
\* the muxer is Uninitialized and the packet is AAC or AVC with a packetType
\* other than 0.
DeferredHeaderGeneration ==
  waitForAdditionalData /\ state = 0 /\ IsRawPush(last')

\* C14: whenever header generation runs with an 'mp4a' or 'avc1' track, the
\* cache of that track is nonempty and its first sample is a configuration
\* sample (packetType 0), whatever the order the packets arrived in.
C14_ConfigurationCached ==
  [][ DeferredHeaderGeneration =>
        \A i \in 1..Len(tracks) :
          tracks[i].type \in { "mp4a", "avc1" } =>
            /\ tracks[i].cache # <<>>
            /\ tracks[i].cache[1].packet.packetType = 0 ]_vars

\* ------------------------------------------------------------------- C15
\* C15: under the deferred path, while Uninitialized, the header is emitted
\* exactly at the first AAC or AVC packet whose packetType is not 0, before
\* that packet is cached (and before the key frame check), so the packet is
\* not lost: after the push the muxer is HeaderEmitted, the header is the
\* output of the push and the packet is the only pending sample.  A push of
\* a packetType 0 packet or of an MP3 or VP6 packet never emits the header.
C15_HeaderAtFirstRawPacket ==
  [][ (waitForAdditionalData /\ state = 0 /\ last'.op = "pushPacket") =>
        IF IsRawPush(last')
        THEN /\ state' = 1
             /\ Len(out') = Len(out) + 1 /\ out'[Len(out')].kind = "header"
             /\ accepted' = accepted + 1
             /\ Len(AllPending(tracks')) = 1
             /\ AllPending(tracks')[1].id = accepted'
             /\ AllPending(tracks')[1].packet = LastPacket(last')
        ELSE state' = 0 /\ Headers' = Headers ]_vars

\* ------------------------------------------------------------------- C16
\* C16: the pending-packet count never exceeds MAX_PACKETS_IN_CHUNK (5), so
\* no emission takes more than 5 samples out of the caches, and after every
\* pushPacket or flush that returns normally it is at most 4.
C16_PendingBound ==
  /\ cachedPackets <= MAX_PACKETS_IN_CHUNK
  /\ Len(AllPending(tracks)) <= MAX_PACKETS_IN_CHUNK
  /\ \A k \in 1..Len(out) : Len(out[k].samples) <= MAX_PACKETS_IN_CHUNK
  /\ ~last.threw =>
       /\ cachedPackets <= MAX_PACKETS_IN_CHUNK - 1
       /\ Len(AllPending(tracks)) <= MAX_PACKETS_IN_CHUNK - 1

\* The fifth pending packet, pushed after four of both tracks, was flushed
\* with them by the push itself.
C16_Witness ==
  /\ last.op = "pushPacket" /\ ~last.threw
  /\ cachedPackets = 0
  /\ out # <<>> /\ out[Len(out)].kind = "chunk"
  /\ Len(out[Len(out)].trafs) = 2
  /\ Len(out[Len(out)].samples) = MAX_PACKETS_IN_CHUNK

\* ------------------------------------------------------------------- C17
\* The duration of the samples a fragment takes from track i: for a video
\* track their count times floor(timescale / framerate), for an audio track
\* the sum of floor(frame sample count * timescale / samplerate).
RECURSIVE AudioSum(_, _)
AudioSum(i, samples) ==
  IF samples = <<>> THEN 0
  ELSE (Head(samples).packet.samples * tracks[i].timescale) \div tracks[i].samplerate
         + AudioSum(i, Tail(samples))

DurationOf(i, samples) ==
  IF tracks[i].type \in { "avc1", "vp6f" }
  THEN Len(samples) * (tracks[i].timescale \div tracks[i].framerate)
  ELSE AudioSum(i, samples)

\* The duration of the samples of track i in the trafs of one emission.
RECURSIVE TrafsDuration(_, _)
TrafsDuration(i, trafs) ==
  IF trafs = <<>> THEN 0
  ELSE (IF Head(trafs).trackId = i THEN DurationOf(i, Head(trafs).samples) ELSE 0)
         + TrafsDuration(i, Tail(trafs))

\* The duration of the samples of track i in the first k emissions.
RECURSIVE EmittedDuration(_, _)
EmittedDuration(i, k) ==
  IF k = 0 THEN 0 ELSE EmittedDuration(i, k - 1) + TrafsDuration(i, out[k].trafs)

\* C17: the decode time in the tfdt of a track fragment is the track's
\* cachedDuration at that time, which is the sum of the durations of the
\* track's samples in all earlier fragments - whatever the timestamps of
\* the packets; it is 0 in the track's first fragment and never decreases.
C17_DecodeTime ==
  /\ \A i \in 1..Len(tracks) : tracks[i].cachedDuration = EmittedDuration(i, Len(out))
  /\ \A k \in 1..Len(out) : \A j \in 1..Len(out[k].trafs) :
       /\ out[k].trafs[j].tfdt = EmittedDuration(out[k].trafs[j].trackId, k - 1)
       /\ out[k].trafs[j].tfdt >= 0
       /\ (\A e \in 1..(k - 1) : \A f \in 1..Len(out[e].trafs) :
             out[e].trafs[f].trackId # out[k].trafs[j].trackId)
            => out[k].trafs[j].tfdt = 0
       /\ \A e \in 1..(k - 1) : \A f \in 1..Len(out[e].trafs) :
            out[e].trafs[f].trackId = out[k].trafs[j].trackId
              => out[e].trafs[f].tfdt <= out[k].trafs[j].tfdt

\* A fragment of an audio and a video track, both with earlier fragments:
\* both decode times have advanced.
C17_Witness ==
  /\ out # <<>>
  /\ Len(out[Len(out)].trafs) = 2
  /\ out[Len(out)].trafs[1].tfdt > 0
  /\ out[Len(out)].trafs[2].tfdt > 0
  /\ tracks[1].cachedDuration > out[Len(out)].trafs[1].tfdt

\* ------------------------------------------------------------------- C18
\* The bytes of the moof box of a fragment: its 8-byte box header, the
\* 16-byte mfhd and the traf boxes.
MoofSize(trafs) == 8 + 16 + SumSeq([ k \in 1..Len(trafs) |-> trafs[k].len ])

\* The payload bytes a traf contributes to the mdat.
RECURSIVE PayloadBytes(_)
PayloadBytes(samples) ==
  IF samples = <<>> THEN 0 ELSE Len(Head(samples).packet.data) + PayloadBytes(Tail(samples))

\* C18: the data offset in the trun of the i-th contributing track of a
\* fragment is the size of the moof box, plus 8 for the mdat box header,
\* plus the payload bytes of the contributing tracks before it - for
\* fragments of the audio track, the video track or both, of 1 to 5 samples.
C18_DataOffset ==
  \A k \in 1..Len(out) : \A j \in 1..Len(out[k].trafs) :
    /\ out[k].trafs[j].dataOffset =
         MoofSize(out[k].trafs) + 8
           + SumSeq([ f \in 1..(j - 1) |-> PayloadBytes(out[k].trafs[f].samples) ])
    /\ out[k].trafs[j].dataOffset + PayloadBytes(out[k].trafs[j].samples) <= out[k].len

\* A fragment of 5 samples of two tracks was emitted.
C18_Witness ==
  \E k \in 1..Len(out) :
    /\ Len(out[k].trafs) = 2
    /\ Len(out[k].samples) = 5
    /\ out[k].trafs[2].dataOffset > out[k].trafs[1].dataOffset

\* ------------------------------------------------------------------- C19
\* The step hands one fragment to the sink.
EmitsChunk == Len(out') = Len(out) + 1 /\ out'[Len(out')].kind = "chunk"

\* The track the packet of the step is cached in (counted from 1).
TargetTrack == IF last'.type = AUDIO_PACKET THEN audioTrackId + 1 ELSE videoTrackId + 1

\* The cache of track i when the fragment of the step is built: the cache
\* before the call, with the packet of the call when it was cached before
\* the flush (the ceiling check follows the cache push, the key frame check
\* and flush() precede it or cache nothing).
CacheAtFlush(i) ==
  IF accepted' = accepted + 1 /\ cachedPackets' = 0 /\ i = TargetTrack
  THEN Append(tracks[i].cache,
              [ packet |-> LastPacket(last'), timestamp |-> Timestamp, id |-> accepted' ])
  ELSE tracks[i].cache

RECURSIVE CachesAtFlush(_)
CachesAtFlush(i) ==
  IF i > Len(tracks) THEN <<>> ELSE CacheAtFlush(i) \o CachesAtFlush(i + 1)

TrafsOf(i, trafs) == { j \in 1..Len(trafs) : trafs[j].trackId = i }

\* C19: a fragment has one traf for exactly the tracks whose cache is
\* nonempty when it is built, in track creation order, and its mdat holds
\* their payloads in the same order; a track with an empty cache contributes
\* nothing and its cachedDuration is left as it was.
C19_ContributingTracks ==
  [][ EmitsChunk =>
        /\ \A i \in 1..Len(tracks) :
             IF CacheAtFlush(i) = <<>>
             THEN /\ TrafsOf(i, out'[Len(out')].trafs) = {}
                  /\ tracks'[i].cachedDuration = tracks[i].cachedDuration
             ELSE /\ Cardinality(TrafsOf(i, out'[Len(out')].trafs)) = 1
                  /\ \A j \in TrafsOf(i, out'[Len(out')].trafs) :
                       out'[Len(out')].trafs[j].samples = CacheAtFlush(i)
        /\ \A j \in 1..Len(out'[Len(out')].trafs) :
             /\ out'[Len(out')].trafs[j].trackId \in 1..Len(tracks)
             /\ \A f \in 1..(j - 1) :
                  /\ out'[Len(out')].trafs[f].trackId < out'[Len(out')].trafs[j].trackId
                  /\ out'[Len(out')].trafs[f].dataOffset <= out'[Len(out')].trafs[j].dataOffset
        /\ out'[Len(out')].samples = CachesAtFlush(1) ]_vars

\* With two tracks, the latest of several fragments holds only the video
\* track and the audio track has never contributed.
C19_Witness ==
  /\ Len(tracks) = 2
  /\ out # <<>> /\ out[Len(out)].kind = "chunk"
  /\ Len(out[Len(out)].trafs) = 1 /\ out[Len(out)].trafs[1].trackId = 2
  /\ tracks[1].cachedDuration = 0
  /\ Len(Chunks) >= 2

\* ------------------------------------------------------------------- C20
\* C20: after every pushPacket, flush or header emission that returns
\* normally, cachedPackets is the sum of the lengths of the caches of all
\* tracks, so it is 0 exactly when every cache is empty.
C20_CounterMatchesCaches ==
  ~last.threw =>
    /\ cachedPackets = SumSeq([ i \in 1..Len(tracks) |-> Len(tracks[i].cache) ])
    /\ cachedPackets = 0 <=> \A i \in 1..Len(tracks) : tracks[i].cache = <<>>

\* Both tracks hold pending samples again after a header and a fragment.
C20_Witness ==
  /\ ~last.threw
  /\ Headers # <<>> /\ Chunks # <<>>
  /\ cachedPackets = 3
  /\ \A i \in 1..Len(tracks) : tracks[i].cache # <<>>
  /\ Len(tracks) = 2

\* ------------------------------------------------------------------- C21
\* No sample of the run after its first one is a key frame.
KeyFrameOnlyFirst(samples) ==
  \A k \in 2..Len(samples) : samples[k].packet.frameType # 1

IsVideoTrack(i) == tracks[i].type \in { "avc1", "vp6f" }

\* C21: in every reachable state a video key frame (frameType 1) is at
\* position 0 of the pending cache of the video track or not in it, so in
\* every emitted fragment only the first video sample of the run, the one
\* the first-sample flags of the trun describe, can be a key frame.
C21_KeyFrameFirst ==
  /\ \A i \in 1..Len(tracks) : IsVideoTrack(i) => KeyFrameOnlyFirst(tracks[i].cache)
  /\ \A k \in 1..Len(out) : \A j \in 1..Len(out[k].trafs) :
       IsVideoTrack(out[k].trafs[j].trackId) =>
         /\ KeyFrameOnlyFirst(out[k].trafs[j].samples)
         /\ out[k].trafs[j].sync = 1 <=> out[k].trafs[j].samples[1].packet.frameType = 1

\* A key frame heads a pending run of video samples, after a fragment whose
\* video run of several samples began with a key frame too.
C21_Witness ==
  /\ \E i \in 1..Len(tracks) :
       /\ IsVideoTrack(i)
       /\ Len(tracks[i].cache) >= 2
       /\ tracks[i].cache[1].packet.frameType = 1
  /\ \E k \in 1..Len(out) : \E j \in 1..Len(out[k].trafs) :
       /\ IsVideoTrack(out[k].trafs[j].trackId)
       /\ out[k].trafs[j].sync = 1
       /\ Len(out[k].trafs[j].samples) >= 2
====
